---- MODULE Spec2Model ----
(***************************************************************************)
(* djinject: merge of module trees (merge), lazy memoizing resolution      *)
(* behind proxies (proxify / resolve) and eager initialization            *)
(* (initializeEagerServices), as implemented in src/src/inject.ts and the  *)
(* merge function of src/unnamed/part_002.                                 *)
(*                                                                         *)
(* JavaScript objects live in a heap (object id -> ordered property list), *)
(* so that aliasing between the arguments of inject and the merged module  *)
(* is visible.  A factory call is re-entrant: the interpreter keeps an     *)
(* explicit call stack and a value or exception in flight (pending).       *)
(***************************************************************************)
EXTENDS FiniteSets, Integers, Sequences, TLC

VARIABLES
    heap,       \* object id -> module object (sequence of [k, v] properties)
    ctrs,       \* container id -> [module, args, status]
    proxies,    \* proxy id -> [module, container, path, target]
    stack,      \* call stack, innermost frame last
    pending,    \* value returned / exception thrown to the top of the stack
    log,        \* the factory invocations made so far
    order,      \* <<proxy id, key>> of the invocations made during inject, in order
    returned,   \* <<proxy id, key>> -> set of values handed out by normal reads
    last        \* the call the caller made last: inject or a property read

vars == <<heap, ctrs, proxies, stack, pending, log, order, returned, last>>

\* Largest number of modules passed to one inject call.
MaxArgs == 3

-----------------------------------------------------------------------------
(* JavaScript values *)

None == [t |-> "none"]

Undefined == [t |-> "undefined"]

\* the module-level symbol `requested`
requested == [t |-> "requested"]

\* the object created by function f in the n-th invocation for key of proxy id
NewObject(f, id, key, n) == [t |-> "object", f |-> f, node |-> id, key |-> key, n |-> n]

\* an instance of Error
NewError(kind, path) == [t |-> "error", kind |-> kind, path |-> path]

\* a thrown value that is not an instance of Error
ThrownString == [t |-> "string", s |-> "boom"]

ProxyRef(id) == [t |-> "proxy", id |-> id]

\* `v instanceof Error`
InstanceofError(v) == v.t = "error"

\* a number, as a caller may assign it to a property
Num(n) == [t |-> "number", n |-> n]

\* the names every plain object inherits from Object.prototype
ObjectPrototype == {"toString"}

\* the function Object.prototype[prop]
Inherited(prop) == [t |-> "builtin", name |-> prop]

\* error.cause of an Error made by `new Error(message)`
CauseOf(e) == IF "cause" \in DOMAIN e THEN e.cause ELSE Undefined

\* a function value; eager = the isEager symbol is a property of the function
Fn(f, e) == [t |-> "fn", f |-> f, eager |-> e]

\* a reference to a nested module object
Grp(o) == [t |-> "obj", ref |-> o]

\* a boolean result
Bool(b) == [t |-> "boolean", b |-> b]

\* an array of keys
KeyList(ks) == [t |-> "keys", ks |-> ks]

Ret(v) == [t |-> "ret", v |-> v]

Throw(e) == [t |-> "throw", e |-> e]

-----------------------------------------------------------------------------
(* Ordered objects: a sequence of [k |-> key, v |-> value] *)

Prop(k, v) == [k |-> k, v |-> v]

\* own string keys in insertion order
keys(o) == [i \in 1..Len(o) |-> o[i].k]

\* k is an own property of the plain module object o
Has(o, k) == \E i \in 1..Len(o) : o[i].k = k

\* `k in o` for a plain module object: own and inherited properties
In(o, k) == Has(o, k) \/ k \in ObjectPrototype

\* `o[k]`
Lookup(o, k) == IF Has(o, k) THEN o[CHOOSE i \in 1..Len(o) : o[i].k = k].v ELSE Undefined

\* `o[k] = v`: an existing key keeps its position, a new key is appended
Put(o, k, v) ==
    IF Has(o, k)
    THEN [i \in 1..Len(o) |-> IF o[i].k = k THEN Prop(k, v) ELSE o[i]]
    ELSE Append(o, Prop(k, v))

\* isObj of ./base: a non-null value of type 'object'
isObj(v) == v.t = "obj"

\* typeof value === 'function'
IsFunction(v) == v.t = "fn"

-----------------------------------------------------------------------------
(* eager *)

\* the new function `(ctr) => factory(ctr)` with the isEager property: it
\* is another function than the factory it wraps
Tagged(fn) == [t |-> "fn", f |-> fn.f, eager |-> TRUE, wraps |-> fn]

\* eager for a function that wraps every factory it is given
eagerAgain(fn) == Tagged(fn)

\* eager(factory): an already tagged factory is returned as is
eager(fn) == IF fn.eager THEN fn ELSE Tagged(fn)

-----------------------------------------------------------------------------
(* The modules a caller can pass to inject *)

Names == {"a", "b", "g", "h", "w", "x", "y", "z"}

\* what a factory does with its context: the key paths it reads, in order,
\* and how it ends
Behaviour(f) ==
    CASE f = "one"      -> [reads |-> <<>>,             out |-> "object"]
      [] f = "two"      -> [reads |-> <<>>,             out |-> "object"]
      [] f = "depA"     -> [reads |-> << <<"a">> >>,    out |-> "object"]
      [] f = "depB"     -> [reads |-> << <<"b">> >>,    out |-> "object"]
      [] f = "depGX"    -> [reads |-> << <<"g", "x">> >>, out |-> "object"]
      [] f = "depGHZ"   -> [reads |-> << <<"g", "h", "z">> >>, out |-> "object"]
      [] f = "throws"   -> [reads |-> <<>>,             out |-> "throwError"]
      [] f = "throwsStr" -> [reads |-> <<>>,            out |-> "throwString"]
      [] f = "retErr"   -> [reads |-> <<>>,             out |-> "returnError"]
      [] f = "provA"    -> [reads |-> <<>>,             out |-> "provider", later |-> "a"]

ModuleRoots == {"M1", "M2", "M3", "M4"}

\* the modules passed to inject where the container is also enumerated,
\* extended, sealed and asked for providers
RootsOps == {"M0", "M3", "M4", "M5", "M6", "M7"}

\* the modules a caller passes to two inject calls
RootsTwo == {"P1", "P2", "P3"}

\* modules whose factories read their own key, a key on a cycle, or the key
\* of an eager factory, and a module with a key named like a property that
\* every object inherits
RootsRun == {"R1", "R2", "R3", "R4", "R5", "R6"}

ModuleObjects ==
    ModuleRoots \cup RootsOps \cup RootsTwo \cup RootsRun
        \cup {"G1", "G2", "H1", "H2", "G6", "Q1", "Q2", "K3", "K4"}

ContainerIds == {"c1"}

\* the module objects as the caller wrote them
Original ==
    [o \in ModuleObjects |->
        CASE o = "M1" -> << Prop("a", Fn("depB", FALSE)),
                            Prop("b", Fn("one", FALSE)),
                            Prop("g", Grp("G1")) >>
          [] o = "G1" -> << Prop("x", Fn("depGX", FALSE)),
                            Prop("h", Grp("H1")) >>
          [] o = "H1" -> << Prop("z", Fn("one", FALSE)) >>
          [] o = "M2" -> << Prop("b", Fn("depA", FALSE)),
                            Prop("g", Grp("G2")) >>
          [] o = "G2" -> << Prop("x", Fn("two", FALSE)),
                            Prop("y", eager(Fn("depGX", FALSE))),
                            Prop("h", Grp("H2")) >>
          [] o = "H2" -> << Prop("w", eager(Fn("depGHZ", FALSE))) >>
          [] o = "M3" -> << Prop("a", Fn("throws", FALSE)),
                            Prop("b", eager(eager(Fn("two", FALSE)))) >>
          [] o = "M4" -> << Prop("a", Fn("throwsStr", FALSE)),
                            Prop("b", eager(Fn("depA", FALSE))),
                            Prop("g", Fn("retErr", FALSE)) >>
          [] o = "M0" -> << >>
          [] o = "M5" -> << Prop("a", Fn("depB", FALSE)),
                            Prop("b", Fn("provA", FALSE)) >>
          [] o = "M6" -> << Prop("g", Grp("G6")) >>
          [] o = "G6" -> << Prop("x", Fn("one", FALSE)) >>
          [] o = "M7" -> << Prop("toString", Fn("one", FALSE)),
                            Prop("g", Fn("retErr", FALSE)),
                            Prop("b", Fn("two", FALSE)) >>
          [] o = "P1" -> << Prop("a", Fn("throws", FALSE)),
                            Prop("g", Grp("Q1")) >>
          [] o = "Q1" -> << Prop("x", Fn("one", FALSE)) >>
          [] o = "P2" -> << Prop("g", Grp("Q2")) >>
          [] o = "Q2" -> << Prop("x", eager(Fn("two", FALSE))),
                            Prop("y", Fn("one", FALSE)) >>
          [] o = "P3" -> << Prop("g", Fn("two", FALSE)) >>
          [] o = "R1" -> << Prop("a", Fn("depA", FALSE)) >>
          [] o = "R2" -> << Prop("a", eager(Fn("depA", FALSE))) >>
          [] o = "R3" -> << Prop("g", Grp("K3")) >>
          [] o = "K3" -> << Prop("y", eager(Fn("depGX", FALSE))),
                            Prop("x", eager(Fn("two", FALSE))) >>
          [] o = "R4" -> << Prop("g", Grp("K4")) >>
          [] o = "K4" -> << Prop("x", eager(Fn("two", FALSE))),
                            Prop("y", eager(Fn("depGX", FALSE))) >>
          [] o = "R5" -> << Prop("a", Fn("depB", FALSE)),
                            Prop("b", eager(Fn("depA", FALSE))) >>
          [] o = "R6" -> << Prop("toString", Fn("one", FALSE)),
                            Prop("b", Fn("two", FALSE)) >> ]

-----------------------------------------------------------------------------
(* merge *)

RECURSIVE merge(_, _, _), mergeEach(_, _, _, _)

\* the value merge assigns to target[key]
mergedValue(sourceValue, targetValue) ==
    IF isObj(sourceValue) /\ isObj(targetValue) THEN targetValue ELSE sourceValue

\* mergeEach with a plain assignment target[key] = sourceValue
mergeEachShallow(h, target, source, ks) ==
    IF ks = <<>> THEN h
    ELSE LET key == Head(ks)
             h2 == [h EXCEPT ![target] = Put(h[target], key, Lookup(h[source], key))]
         IN  mergeEach(h2, target, source, Tail(ks))

\* the forEach callback of merge, applied to the remaining keys ks of source
mergeEach(h, target, source, ks) ==
    IF ks = <<>> THEN h
    ELSE LET key == Head(ks)
             sourceValue == Lookup(h[source], key)
             targetValue == Lookup(h[target], key)
             h1 == IF isObj(sourceValue) /\ isObj(targetValue)
                   THEN merge(h, targetValue.ref, sourceValue.ref)
                   ELSE h
             h2 == [h1 EXCEPT ![target] =
                        Put(h1[target], key, mergedValue(sourceValue, targetValue))]
         IN  mergeEach(h2, target, source, Tail(ks))

\* merge(target, source): mutates the target object in the heap
merge(h, target, source) == mergeEach(h, target, source, keys(h[source]))

RECURSIVE reduceMerge(_, _, _)

\* modules.reduce(merge, {}) with the accumulator object acc
reduceMerge(h, acc, modules) ==
    IF modules = <<>> THEN h
    ELSE reduceMerge(merge(h, acc, Head(modules)), acc, Tail(modules))

-----------------------------------------------------------------------------
(* initializeEagerServices *)

RECURSIVE eagerOf(_, _, _), eagerEach(_, _, _, _)

\* isEagerIn for an initializer that calls every function
isEagerInAny(value) == TRUE

\* `isEager in value`
isEagerIn(value) == value.eager

\* eagerEach without the descent into groups
eagerEachFlat(h, o, at, ks) ==
    IF ks = <<>> THEN <<>>
    ELSE LET key == Head(ks)
             value == Lookup(h[o], key)
             here == IF IsFunction(value) /\ isEagerIn(value)
                     THEN << [at |-> at, key |-> key, fn |-> value] >>
                     ELSE <<>>
         IN  here \o eagerEach(h, o, at, Tail(ks))

\* eagerEach that calls the functions of a node before it descends into the
\* groups of the node
eagerEachGroupsLast(h, o, at, ks) ==
    IF ks = <<>> THEN <<>>
    ELSE LET key == Head(ks)
             value == Lookup(h[o], key)
         IN  IF IsFunction(value)
             THEN (IF isEagerIn(value)
                   THEN << [at |-> at, key |-> key, fn |-> value] >>
                   ELSE <<>>) \o eagerEach(h, o, at, Tail(ks))
             ELSE eagerEach(h, o, at, Tail(ks)) \o eagerOf(h, value.ref, Append(at, key))

\* the forEach callback of initializeEagerServices over the remaining keys
\* ks of module object o; at is the key path of o from the root.  The
\* result lists, in call order, the functions it calls with the container.
eagerEach(h, o, at, ks) ==
    IF ks = <<>> THEN <<>>
    ELSE LET key == Head(ks)
             value == Lookup(h[o], key)
             here == IF IsFunction(value)
                     THEN IF isEagerIn(value)
                          THEN << [at |-> at, key |-> key, fn |-> value] >>
                          ELSE <<>>
                     ELSE eagerOf(h, value.ref, Append(at, key))
         IN  here \o eagerEach(h, o, at, Tail(ks))

eagerOf(h, o, at) == eagerEach(h, o, at, keys(h[o]))

-----------------------------------------------------------------------------
(* proxify and resolve *)

\* the empty target object `{}` of a proxy
EmptyTarget == [k \in {} |-> None]

\* obj[prop] = v on a proxy target
SetTarget(obj, prop, v) ==
    [k \in DOMAIN obj \cup {prop} |-> IF k = prop THEN v ELSE obj[k]]

\* `prop in obj` for a proxy target: own and inherited properties
InTarget(obj, prop) == prop \in DOMAIN obj \/ prop \in ObjectPrototype

\* `obj[prop]` for a proxy target
GetTarget(obj, prop) ==
    IF prop \in DOMAIN obj THEN obj[prop]
    ELSE IF prop \in ObjectPrototype THEN Inherited(prop)
    ELSE Undefined

\* proxify(module, container, path): the state captured by the new proxy;
\* target and extensible are the new object `{}` the proxy wraps
proxify(module, container, path) ==
    [module |-> module, container |-> container, path |-> path,
     target |-> EmptyTarget, extensible |-> TRUE]

\* contextOf for a get trap that passes its own proxy
contextOfProxy(px, id) == ProxyRef(id)

\* `container || proxy` in the get trap of the proxy id
contextOf(px, id) ==
    IF px[id].container # None THEN px[id].container ELSE ProxyRef(id)

\* (parentPath ? '.' : '') + String(prop), a string as a sequence of tokens
pathOf(parentPath, prop) ==
    (IF parentPath # <<>> THEN <<".">> ELSE <<>>) \o <<prop>>

\* the path argument resolve passes to proxify: (path ? '.' : '')
childPath(path) == IF path # <<>> THEN <<".">> ELSE <<>>

\* resolveCached without the test for the requested symbol
resolveCachedNoCycle(v, path) ==
    IF InstanceofError(v) THEN Throw(NewError("failure", path)) ELSE Ret(v)

\* resolveCached for a resolve that waits for a requested property instead
\* of throwing
resolveCachedWait(v, path) ==
    IF InstanceofError(v) THEN Throw(NewError("failure", path))
    ELSE IF v = requested THEN None
    ELSE Ret(v)

\* the branch of resolve taken for a property that is in the target
resolveCached(v, path) ==
    IF InstanceofError(v) THEN Throw(NewError("failure", path))
    ELSE IF v = requested THEN Throw(NewError("cycle", path))
    ELSE Ret(v)

\* a resolve that proxifies a group on every read of its key
resolveFresh(h, px, id, prop) ==
    LET obj == px[id].target
        module == h[px[id].module]
        container == contextOf(px, id)
        path == pathOf(px[id].path, prop)
        value == Lookup(module, prop)
        child == Append(id, prop)
    IN  IF In(module, prop) /\ ~IsFunction(value) /\ px[id].extensible
        THEN [proxies |-> [p \in DOMAIN px \cup {child} |->
                            IF p = child THEN proxify(value.ref, container, childPath(path))
                            ELSE IF p = id
                            THEN [px[id] EXCEPT !.target = SetTarget(obj, prop, ProxyRef(child))]
                            ELSE px[p]],
              call |-> None,
              out |-> Ret(ProxyRef(child))]
        ELSE IF InTarget(obj, prop)
        THEN [proxies |-> px, call |-> None,
              out |-> resolveCached(GetTarget(obj, prop), path)]
        ELSE IF In(module, prop)
        THEN IF ~px[id].extensible
             THEN [proxies |-> px, call |-> None,
                   out |-> Throw(NewError("type", <<"add", prop>>))]
             ELSE [proxies |-> [px EXCEPT ![id].target = SetTarget(obj, prop, requested)],
                   call |-> [fn |-> value, ctx |-> container],
                   out |-> None]
        ELSE [proxies |-> px, call |-> None, out |-> Ret(Undefined)]

\* resolve(obj, prop, module, container, parentPath) up to the point where
\* it returns, throws or calls the factory: the new proxies, the function
\* to call (or None) and the outcome (or None while the factory runs)
resolve(h, px, id, prop) ==
    LET obj == px[id].target
        module == h[px[id].module]
        container == contextOf(px, id)
        path == pathOf(px[id].path, prop)
    IN  IF InTarget(obj, prop)
        THEN [proxies |-> px, call |-> None,
              out |-> resolveCached(GetTarget(obj, prop), path)]
        ELSE IF In(module, prop)
        THEN LET value == Lookup(module, prop)
             IN  IF ~px[id].extensible
                 THEN \* obj[prop] = requested on a target that is not extensible
                      [proxies |-> px, call |-> None,
                       out |-> Throw(NewError("type", <<"add", prop>>))]
                 ELSE IF IsFunction(value)
                 THEN [proxies |-> [px EXCEPT ![id].target = SetTarget(obj, prop, requested)],
                       call |-> [fn |-> value, ctx |-> container],
                       out |-> None]
                 ELSE LET child == Append(id, prop)
                          px1 == [p \in DOMAIN px \cup {child} |->
                                    IF p = child
                                    THEN proxify(value.ref, container, childPath(path))
                                    ELSE px[p]]
                      IN  [proxies |-> [px1 EXCEPT ![id].target =
                                            SetTarget(obj, prop, ProxyRef(child))],
                           call |-> None,
                           out |-> Ret(ProxyRef(child))]
        ELSE [proxies |-> px, call |-> None, out |-> Ret(Undefined)]

\* the assignment in the catch block of resolve
caught(error) == IF InstanceofError(error) THEN error ELSE Undefined

-----------------------------------------------------------------------------
(* Bookkeeping of the interpreter *)

Top == stack[Len(stack)]

Pop == SubSeq(stack, 1, Len(stack) - 1)

\* number of invocations made so far for key prop of proxy id
Invocations(l, id, prop) == Cardinality({e \in l : e.node = id /\ e.key = prop})

\* the frame of a running factory: i-th read, j-th key of its path, cur the
\* value the next key is read from
FactoryFrame(id, prop, fn, ctx, n) ==
    [kind |-> "factory", node |-> id, key |-> prop, fn |-> fn, ctx |-> ctx, n |-> n,
     i |-> 1, j |-> 1, cur |-> ctx]

ResolveFrame(id, prop) == [kind |-> "resolve", node |-> id, prop |-> prop]

Phase == IF stack # <<>> /\ stack[1].kind = "init" THEN "inject" ELSE "read"

\* who made the call: initializeEagerServices, or resolve for a read of the
\* caller or of the running factory
ByInit == [t |-> "init"]

ByCaller == [t |-> "caller"]

ByFactory(frame) == [t |-> "factory", node |-> frame.node, key |-> frame.key]

\* resolve called by the getOwnPropertyDescriptor trap
ByDescriptor == [t |-> "descriptor"]

\* out: None while the function runs, then what it returned or threw
LogEntry(id, prop, fn, ctx, via, by) ==
    [node |-> id, key |-> prop, fn |-> fn, ctx |-> ctx, via |-> via, by |-> by,
     phase |-> Phase, n |-> Invocations(log, id, prop) + 1, out |-> None]

\* the invocation of frame has ended with out
Ended(l, frame, out) ==
    {IF e.node = frame.node /\ e.key = frame.key /\ e.n = frame.n
     THEN [e EXCEPT !.out = out] ELSE e : e \in l}

\* the invocation is appended to order while inject is running
Ordered(id, prop) == IF Phase = "inject" THEN Append(order, <<id, prop>>) ELSE order

AddReturned(r, id, prop, v) ==
    LET k == <<id, prop>>
    IN  [x \in DOMAIN r \cup {k} |->
            IF x = k THEN (IF k \in DOMAIN r THEN r[k] ELSE {}) \cup {v} ELSE r[x]]

\* how a factory ends once its reads are done
outcome(fn, id, key, n) ==
    LET out == Behaviour(fn.f).out
    IN  CASE out = "object"      -> Ret(NewObject(fn.f, id, key, n))
          [] out = "throwError"  -> Throw(NewError("user", <<fn.f>>))
          [] out = "throwString" -> Throw(ThrownString)
          [] out = "returnError" -> Ret(NewError("user", <<fn.f>>))
          [] out = "provider"    -> Ret(NewObject(fn.f, id, key, n))

\* a property read `proxy[prop]` performed with the frames base below it
Get(base, id, prop, by) ==
    LET r == resolve(heap, proxies, id, prop)
    IN  /\ proxies' = r.proxies
        /\ IF r.call # None
           THEN /\ stack' = base \o << ResolveFrame(id, prop),
                                      FactoryFrame(id, prop, r.call.fn, r.call.ctx,
                                                   Invocations(log, id, prop) + 1) >>
                /\ pending' = None
                /\ log' = log \cup {LogEntry(id, prop, r.call.fn, r.call.ctx, "resolve", by)}
                /\ order' = Ordered(id, prop)
                /\ returned' = returned
           ELSE /\ stack' = base
                /\ pending' = r.out
                /\ log' = log
                /\ order' = order
                /\ returned' = IF r.out.t = "ret" /\ prop \in DOMAIN r.proxies[id].target
                               THEN AddReturned(returned, id, prop, r.out.v)
                               ELSE returned

-----------------------------------------------------------------------------
(* Actions *)

ArgLists == UNION {[1..n -> ModuleRoots] : n \in 1..MaxArgs}

Init ==
    /\ heap = [o \in ModuleObjects \cup ContainerIds |->
                  IF o \in ModuleObjects THEN Original[o] ELSE <<>>]
    /\ ctrs = [c \in {} |-> None]
    /\ proxies = [p \in {} |-> None]
    /\ stack = <<>>
    /\ pending = None
    /\ log = {}
    /\ order = <<>>
    /\ returned = [k \in {} |-> {}]
    /\ last = [op |-> "none"]

\* inject(...modules) up to the first factory call of initializeEagerServices
Inject(c, modules) ==
    /\ stack = <<>>
    /\ c \notin DOMAIN ctrs
    /\ LET h == reduceMerge(heap, c, modules)
       IN  /\ heap' = h
           /\ stack' = << [kind |-> "init", c |-> c, todo |-> eagerOf(h, c, <<>>)] >>
    /\ proxies' = [p \in DOMAIN proxies \cup {<<c>>} |->
                      IF p = <<c>> THEN proxify(c, None, <<>>) ELSE proxies[p]]
    /\ ctrs' = [x \in DOMAIN ctrs \cup {c} |->
                   IF x = c THEN [module |-> c, args |-> modules, status |-> "init"]
                   ELSE ctrs[x]]
    /\ pending' = None
    /\ last' = [op |-> "inject", c |-> c]
    /\ UNCHANGED <<log, order, returned>>

\* initializeEagerServices: value(container) for the next eager function
InitCall ==
    /\ stack # <<>> /\ Top.kind = "init" /\ pending = None /\ Top.todo # <<>>
    /\ LET e == Head(Top.todo)
           ctx == ProxyRef(<<Top.c>>)
           id == <<Top.c>> \o e.at
       IN  /\ stack' = Append(stack, FactoryFrame(id, e.key, e.fn, ctx,
                                                  Invocations(log, id, e.key) + 1))
           /\ log' = log \cup {LogEntry(id, e.key, e.fn, ctx, "eager", ByInit)}
           /\ order' = Ordered(id, e.key)
    /\ UNCHANGED <<heap, ctrs, proxies, pending, returned, last>>

\* the eager function returned; its value is dropped
InitResume ==
    /\ stack # <<>> /\ Top.kind = "init" /\ pending.t = "ret"
    /\ stack' = Append(Pop, [Top EXCEPT !.todo = Tail(Top.todo)])
    /\ pending' = None
    /\ UNCHANGED <<heap, ctrs, proxies, log, order, returned, last>>

\* InitAbort for an initializer that ignores the exception of an eager
\* function and goes on with the next one
InitAbortIgnored ==
    /\ stack # <<>> /\ Top.kind = "init" /\ pending.t = "throw"
    /\ stack' = Append(Pop, [Top EXCEPT !.todo = Tail(Top.todo)])
    /\ pending' = None
    /\ UNCHANGED <<heap, ctrs, proxies, log, order, returned, last>>

\* inject returns the container
InitDone ==
    /\ stack # <<>> /\ Top.kind = "init" /\ pending = None /\ Top.todo = <<>>
    /\ stack' = Pop
    /\ ctrs' = [ctrs EXCEPT ![Top.c].status = "returned"]
    /\ pending' = Ret(ProxyRef(<<Top.c>>))
    /\ UNCHANGED <<heap, proxies, log, order, returned, last>>

\* an eager function threw: inject throws
InitAbort ==
    /\ stack # <<>> /\ Top.kind = "init" /\ pending.t = "throw"
    /\ stack' = Pop
    /\ ctrs' = [ctrs EXCEPT ![Top.c].status = "failed"]
    /\ UNCHANGED <<heap, proxies, pending, log, order, returned, last>>

\* Read for proxies that keep their properties in one object per key path,
\* shared by all containers
ReadShared(id, prop) ==
    /\ stack = <<>>
    /\ id \in DOMAIN proxies
    /\ ctrs[id[1]].status = "returned"
    /\ LET first == <<"c1">> \o Tail(id)
       IN  Get(<<>>, IF first \in DOMAIN proxies THEN first ELSE id, prop, ByCaller)
    /\ last' = [op |-> "read", node |-> id, key |-> prop]
    /\ UNCHANGED <<heap, ctrs>>

\* the caller reads proxy[prop] on a container it got from inject
Read(id, prop) ==
    /\ stack = <<>>
    /\ id \in DOMAIN proxies
    /\ ctrs[id[1]].status = "returned"
    /\ Get(<<>>, id, prop, ByCaller)
    /\ last' = [op |-> "read", node |-> id, key |-> prop]
    /\ UNCHANGED <<heap, ctrs>>

\* a running factory reads the next key of its next path
FactoryRead ==
    /\ stack # <<>> /\ Top.kind = "factory" /\ pending = None
    /\ Top.i <= Len(Behaviour(Top.fn.f).reads)
    /\ LET prop == Behaviour(Top.fn.f).reads[Top.i][Top.j]
       IN  IF Top.cur.t = "proxy"
           THEN Get(stack, Top.cur.id, prop, ByFactory(Top))
           ELSE /\ pending' = IF Top.cur = Undefined
                              THEN Throw(NewError("type", <<prop>>))
                              ELSE Ret(Undefined)
                /\ UNCHANGED <<proxies, stack, log, order, returned>>
    /\ UNCHANGED <<heap, ctrs, last>>

\* the read of a running factory returned
FactoryResume ==
    /\ stack # <<>> /\ Top.kind = "factory" /\ pending.t = "ret"
    /\ LET more == Top.j < Len(Behaviour(Top.fn.f).reads[Top.i])
       IN  stack' = Append(Pop,
                IF more THEN [Top EXCEPT !.j = Top.j + 1, !.cur = pending.v]
                ELSE [Top EXCEPT !.i = Top.i + 1, !.j = 1, !.cur = Top.ctx])
    /\ pending' = None
    /\ UNCHANGED <<heap, ctrs, proxies, log, order, returned, last>>

\* the read of a running factory threw: the factory does not catch
FactoryAbort ==
    /\ stack # <<>> /\ Top.kind = "factory" /\ pending.t = "throw"
    /\ stack' = Pop
    /\ log' = Ended(log, Top, pending)
    /\ UNCHANGED <<heap, ctrs, proxies, pending, order, returned, last>>

\* a factory has done its reads and returns or throws
FactoryReturn ==
    /\ stack # <<>> /\ Top.kind = "factory" /\ pending = None
    /\ Top.i > Len(Behaviour(Top.fn.f).reads)
    /\ stack' = Pop
    /\ pending' = outcome(Top.fn, Top.node, Top.key, Top.n)
    /\ log' = Ended(log, Top, pending')
    /\ UNCHANGED <<heap, ctrs, proxies, order, returned, last>>

\* ResolveReturn for a resolve that returns the value of the factory and
\* leaves the requested symbol in the target
ResolveReturnUncached ==
    /\ stack # <<>> /\ Top.kind = "resolve" /\ pending.t = "ret"
    /\ returned' = AddReturned(returned, Top.node, Top.prop, pending.v)
    /\ stack' = Pop
    /\ UNCHANGED <<heap, ctrs, proxies, pending, log, order, last>>

\* resolve: obj[prop] = value(container); return obj[prop]
ResolveReturn ==
    /\ stack # <<>> /\ Top.kind = "resolve" /\ pending.t = "ret"
    /\ proxies' = [proxies EXCEPT ![Top.node].target =
                        SetTarget(proxies[Top.node].target, Top.prop, pending.v)]
    /\ returned' = AddReturned(returned, Top.node, Top.prop, pending.v)
    /\ stack' = Pop
    /\ UNCHANGED <<heap, ctrs, pending, log, order, last>>

\* a catch block that removes the entry, so that the next read tries again
ResolveCatchRetry ==
    /\ stack # <<>> /\ Top.kind = "resolve" /\ pending.t = "throw"
    /\ proxies' = [proxies EXCEPT ![Top.node].target =
                        [k \in DOMAIN proxies[Top.node].target \ {Top.prop} |->
                            proxies[Top.node].target[k]]]
    /\ stack' = Pop
    /\ UNCHANGED <<heap, ctrs, pending, log, order, returned, last>>

\* a catch block that stores the error for every key the target holds
ResolveCatchAll ==
    /\ stack # <<>> /\ Top.kind = "resolve" /\ pending.t = "throw"
    /\ proxies' = [proxies EXCEPT ![Top.node].target =
                        [k \in DOMAIN proxies[Top.node].target |-> caught(pending.e)]]
    /\ stack' = Pop
    /\ UNCHANGED <<heap, ctrs, pending, log, order, returned, last>>

\* a catch block that rethrows and stores nothing
ResolveCatchKeep ==
    /\ stack # <<>> /\ Top.kind = "resolve" /\ pending.t = "throw"
    /\ stack' = Pop
    /\ UNCHANGED <<heap, ctrs, proxies, pending, log, order, returned, last>>

\* resolve: the catch block
ResolveCatch ==
    /\ stack # <<>> /\ Top.kind = "resolve" /\ pending.t = "throw"
    /\ proxies' = [proxies EXCEPT ![Top.node].target =
                        SetTarget(proxies[Top.node].target, Top.prop, caught(pending.e))]
    /\ stack' = Pop
    /\ UNCHANGED <<heap, ctrs, pending, log, order, returned, last>>

-----------------------------------------------------------------------------
(* The other operations of a proxy: enumeration, delete, assignment, seal *)

\* the container id has been returned by inject and no call is running
Usable(id) ==
    /\ stack = <<>>
    /\ id \in DOMAIN proxies
    /\ ctrs[id[1]].status = "returned"

\* proxy.[[OwnPropertyKeys]](): the ownKeys trap, and the check of its result
\* against a target that is not extensible
ownKeys(h, px, id) ==
    LET trapResult == keys(h[px[id].module])
    IN  IF /\ ~px[id].extensible
           /\ {trapResult[i] : i \in 1..Len(trapResult)} # DOMAIN px[id].target
        THEN Throw(NewError("type", <<"ownKeys">>))
        ELSE Ret(KeyList(trapResult))

\* proxy.[[HasProperty]](prop): the has trap, and the check of a negative
\* result against a target that is not extensible
has(h, px, id, prop) ==
    LET trapResult == In(h[px[id].module], prop)
    IN  IF ~trapResult /\ prop \in DOMAIN px[id].target /\ ~px[id].extensible
        THEN Throw(NewError("type", <<"has", prop>>))
        ELSE Ret(Bool(trapResult))

\* Reflect.ownKeys(proxy)
OwnKeys(id) ==
    /\ Usable(id)
    /\ pending' = ownKeys(heap, proxies, id)
    /\ last' = [op |-> "ownKeys", node |-> id]
    /\ UNCHANGED <<heap, ctrs, proxies, stack, log, order, returned>>

\* `prop in proxy`
HasKey(id, prop) ==
    /\ Usable(id)
    /\ pending' = has(heap, proxies, id, prop)
    /\ last' = [op |-> "has", node |-> id, key |-> prop]
    /\ UNCHANGED <<heap, ctrs, proxies, stack, log, order, returned>>

\* Delete for a proxy without a deleteProperty trap: the property of the
\* target is deleted
DeleteFromTarget(id, prop) ==
    /\ Usable(id)
    /\ proxies' = [proxies EXCEPT ![id].target =
                        [k \in DOMAIN proxies[id].target \ {prop} |-> proxies[id].target[k]]]
    /\ pending' = Ret(Bool(TRUE))
    /\ last' = [op |-> "delete", node |-> id, key |-> prop]
    /\ UNCHANGED <<heap, ctrs, stack, log, order, returned>>

\* `delete proxy[prop]` in strict code: the deleteProperty trap returns false
Delete(id, prop) ==
    /\ Usable(id)
    /\ pending' = Throw(NewError("type", <<"deleteProperty", prop>>))
    /\ last' = [op |-> "delete", node |-> id, key |-> prop]
    /\ UNCHANGED <<heap, ctrs, proxies, stack, log, order, returned>>

\* Object.seal(proxy): the target is made non-extensible, then the keys of
\* the ownKeys trap are made non-configurable
Seal(id) ==
    /\ Usable(id)
    /\ LET px == [proxies EXCEPT ![id].extensible = FALSE]
           ks == ownKeys(heap, px, id)
       IN  /\ proxies' = px
           /\ pending' = IF ks.t = "throw" THEN ks ELSE Ret(ProxyRef(id))
    /\ last' = [op |-> "seal", node |-> id]
    /\ UNCHANGED <<heap, ctrs, stack, log, order, returned>>

\* the start of a for..in loop over the proxy: the keys of the ownKeys trap;
\* own tells whether the body of the loop tests each key with
\* Object.prototype.hasOwnProperty.call(proxy, key)
forIn(id, own) ==
    /\ Usable(id)
    /\ LET ks == ownKeys(heap, proxies, id)
       IN  IF ks.t = "throw"
           THEN pending' = ks /\ stack' = stack
           ELSE /\ pending' = None
                /\ stack' = << [kind |-> "forin", node |-> id, todo |-> ks.v.ks,
                                seen |-> <<>>, own |-> own, step |-> "next"] >>
    /\ UNCHANGED <<heap, ctrs, proxies, log, order, returned>>

\* `for (key in proxy) res.push(key)`
ForIn(id) ==
    /\ forIn(id, FALSE)
    /\ last' = [op |-> "forin", node |-> id]

\* `for (key in proxy) if (Object.prototype.hasOwnProperty.call(proxy, key))
\* res.push(key)`
ForInOwn(id) ==
    /\ forIn(id, TRUE)
    /\ last' = [op |-> "forin", node |-> id, own |-> TRUE]

\* the loop asks whether the next key is still a property of the proxy: the
\* getOwnPropertyDescriptor trap, which calls resolve
ForInNext ==
    /\ stack # <<>> /\ Top.kind = "forin" /\ Top.step = "next"
    /\ pending = None /\ Top.todo # <<>>
    /\ Get(stack, Top.node, Head(Top.todo), ByDescriptor)
    /\ UNCHANGED <<heap, ctrs, last>>

\* resolve returned: the trap answers Object.getOwnPropertyDescriptor(target,
\* prop).  The loop visits the key if that is a property of the target, and
\* also if it is none but the name is found on the prototype of the target;
\* the body, if it tests the key, runs next
ForInResume ==
    /\ stack # <<>> /\ Top.kind = "forin" /\ Top.step = "next" /\ pending.t = "ret"
    /\ LET key == Head(Top.todo)
           visited == InTarget(proxies[Top.node].target, key)
       IN  stack' = Append(Pop,
                IF visited /\ Top.own THEN [Top EXCEPT !.step = "body"]
                ELSE [Top EXCEPT !.todo = Tail(Top.todo),
                                 !.seen = IF visited THEN Append(Top.seen, key)
                                          ELSE Top.seen])
    /\ pending' = None
    /\ UNCHANGED <<heap, ctrs, proxies, log, order, returned, last>>

\* the body calls hasOwnProperty for the key: the getOwnPropertyDescriptor
\* trap again, which calls resolve again
ForInBody ==
    /\ stack # <<>> /\ Top.kind = "forin" /\ Top.step = "body" /\ pending = None
    /\ Get(stack, Top.node, Head(Top.todo), ByDescriptor)
    /\ UNCHANGED <<heap, ctrs, last>>

\* resolve returned: hasOwnProperty is true if the trap's descriptor of the
\* target's property exists, and the body then lists the key
ForInBodyResume ==
    /\ stack # <<>> /\ Top.kind = "forin" /\ Top.step = "body" /\ pending.t = "ret"
    /\ LET key == Head(Top.todo)
           here == IF key \in DOMAIN proxies[Top.node].target THEN <<key>> ELSE <<>>
       IN  stack' = Append(Pop, [Top EXCEPT !.todo = Tail(Top.todo),
                                            !.seen = Top.seen \o here,
                                            !.step = "next"])
    /\ pending' = None
    /\ UNCHANGED <<heap, ctrs, proxies, log, order, returned, last>>

\* resolve threw inside the trap: the loop throws
ForInAbort ==
    /\ stack # <<>> /\ Top.kind = "forin" /\ pending.t = "throw"
    /\ stack' = Pop
    /\ UNCHANGED <<heap, ctrs, proxies, pending, log, order, returned, last>>

\* the loop has listed its keys
ForInDone ==
    /\ stack # <<>> /\ Top.kind = "forin" /\ Top.step = "next"
    /\ pending = None /\ Top.todo = <<>>
    /\ stack' = Pop
    /\ pending' = Ret(KeyList(Top.seen))
    /\ UNCHANGED <<heap, ctrs, proxies, log, order, returned, last>>

\* `proxy[prop] = v` in strict code: there is no set trap, so the target's
\* [[Set]] runs with the proxy as receiver and first asks the proxy for the
\* property descriptor (the getOwnPropertyDescriptor trap, which calls resolve)
Assign(id, prop, v) ==
    /\ Usable(id)
    /\ Get(<< [kind |-> "set", node |-> id, prop |-> prop, v |-> v] >>, id, prop, ByDescriptor)
    /\ last' = [op |-> "set", node |-> id, key |-> prop, v |-> v]
    /\ UNCHANGED <<heap, ctrs>>

\* resolve returned: an existing property of the target gets the value, a
\* new one is defined if the target is extensible
AssignResume ==
    /\ stack # <<>> /\ Top.kind = "set" /\ pending.t = "ret"
    /\ LET obj == proxies[Top.node].target
       IN  IF Top.prop \in DOMAIN obj \/ proxies[Top.node].extensible
           THEN /\ proxies' = [proxies EXCEPT ![Top.node].target =
                                    SetTarget(obj, Top.prop, Top.v)]
                /\ pending' = Ret(Top.v)
           ELSE /\ proxies' = proxies
                /\ pending' = Throw(NewError("type", <<"define", Top.prop>>))
    /\ stack' = Pop
    /\ UNCHANGED <<heap, ctrs, log, order, returned, last>>

\* resolve threw inside the trap: the assignment throws
AssignAbort ==
    /\ stack # <<>> /\ Top.kind = "set" /\ pending.t = "throw"
    /\ stack' = Pop
    /\ UNCHANGED <<heap, ctrs, proxies, pending, log, order, returned, last>>

\* the caller calls the function `() => ctx[later]` of a resolved service
CallProvider(id, prop) ==
    /\ Usable(id)
    /\ prop \in DOMAIN proxies[id].target
    /\ LET o == proxies[id].target[prop]
       IN  /\ o.t = "object"
           /\ Behaviour(o.f).out = "provider"
           /\ LET e == CHOOSE e \in log : e.node = o.node /\ e.key = o.key /\ e.n = o.n
              IN  Get(<<>>, e.ctx.id, Behaviour(o.f).later, ByCaller)
    /\ last' = [op |-> "provider", node |-> id, key |-> prop]
    /\ UNCHANGED <<heap, ctrs>>

\* the keys the caller uses
NamesOps == {"a", "b", "g", "x", "u", "toString"}

\* the keys the caller assigns to and deletes
NamesSet == {"a", "u"}

\* the values the caller assigns
Assigned == {Num(1), NewError("user", <<"assigned">>)}

Next ==
    \/ \E c \in ContainerIds, modules \in ArgLists : Inject(c, modules)
    \/ InitCall
    \/ InitResume
    \/ InitDone
    \/ InitAbort
    \/ \E id \in DOMAIN proxies, prop \in Names : Read(id, prop)
    \/ FactoryRead
    \/ FactoryResume
    \/ FactoryAbort
    \/ FactoryReturn
    \/ ResolveReturn
    \/ ResolveCatch

Spec == Init /\ [][Next]_vars

\* the operations of the caller on one container of one module; the caller
\* seals and assigns to the root of the container
NextOps ==
    \/ \E c \in ContainerIds, m \in RootsOps : Inject(c, <<m>>)
    \/ InitCall
    \/ InitResume
    \/ InitDone
    \/ InitAbort
    \/ \E id \in DOMAIN proxies, prop \in NamesOps : Read(id, prop)
    \/ FactoryRead
    \/ FactoryResume
    \/ FactoryAbort
    \/ FactoryReturn
    \/ ResolveReturn
    \/ ResolveCatch
    \/ \E id \in DOMAIN proxies : OwnKeys(id)
    \/ \E id \in DOMAIN proxies, prop \in NamesOps : HasKey(id, prop)
    \/ \E id \in DOMAIN proxies, prop \in NamesSet : Delete(id, prop)
    \/ \E c \in DOMAIN ctrs : Seal(<<c>>)
    \/ \E id \in DOMAIN proxies : ForIn(id)
    \/ \E id \in DOMAIN proxies : ForInOwn(id)
    \/ ForInNext
    \/ ForInResume
    \/ ForInBody
    \/ ForInBodyResume
    \/ ForInAbort
    \/ ForInDone
    \/ \E c \in DOMAIN ctrs, prop \in NamesSet, v \in Assigned : Assign(<<c>>, prop, v)
    \/ AssignResume
    \/ AssignAbort
    \/ \E id \in DOMAIN proxies, prop \in NamesOps : CallProvider(id, prop)

SpecOps == Init /\ [][NextOps]_vars

-----------------------------------------------------------------------------
(* Two inject calls on the same module objects *)

ContainersTwo == {"c1", "c2"}

\* the argument lists of the two inject calls
ArgsTwo == { <<"P1">>, <<"P1", "P2">>, <<"P2", "P1">>, <<"P1", "P2", "P1">>,
             <<"P3", "P1">>, <<"P1", "P3">> }

\* the keys the caller reads
NamesTwo == {"a", "g", "x", "y"}

InitTwo ==
    /\ heap = [o \in ModuleObjects \cup ContainersTwo |->
                  IF o \in ModuleObjects THEN Original[o] ELSE <<>>]
    /\ ctrs = [c \in {} |-> None]
    /\ proxies = [p \in {} |-> None]
    /\ stack = <<>>
    /\ pending = None
    /\ log = {}
    /\ order = <<>>
    /\ returned = [k \in {} |-> {}]
    /\ last = [op |-> "none"]

\* the caller makes one inject call, then a second one, and reads keys of
\* the containers it has; the factories of these modules read no keys and
\* their eager functions do not throw
NextTwo ==
    \/ \E modules \in ArgsTwo : Inject("c1", modules)
    \/ \E modules \in ArgsTwo : "c1" \in DOMAIN ctrs /\ Inject("c2", modules)
    \/ InitCall
    \/ InitResume
    \/ InitDone
    \/ \E id \in DOMAIN proxies, prop \in NamesTwo : Read(id, prop)
    \/ FactoryReturn
    \/ ResolveReturn
    \/ ResolveCatch

SpecTwo == InitTwo /\ [][NextTwo]_vars

\* the argument lists of an inject call over the modules of RootsRun
ArgsRun == { <<"R1">>, <<"R2">>, <<"R3">>, <<"R4">>, <<"R5">>, <<"R6">>,
             <<"R5", "R1">>, <<"R3", "R4">>, <<"R1", "R3">> }

\* the keys the caller reads
NamesRun == {"a", "b", "g", "x", "y", "toString"}

\* the steps inject and resolve take once the caller has made a call
Run ==
    \/ InitCall
    \/ InitResume
    \/ InitDone
    \/ InitAbort
    \/ FactoryRead
    \/ FactoryResume
    \/ FactoryAbort
    \/ FactoryReturn
    \/ ResolveReturn
    \/ ResolveCatch

\* the caller makes an inject call and reads keys of the container
NextRun ==
    \/ \E c \in ContainerIds, modules \in ArgsRun : Inject(c, modules)
    \/ \E id \in DOMAIN proxies, prop \in NamesRun : Read(id, prop)
    \/ Run

SpecRun == Init /\ [][NextRun]_vars

\* a call that has been made goes on as long as it has a step to take:
\* JavaScript runs a call to completion
FairRun == SpecRun /\ WF_vars(Run)

TypeOK ==
    /\ DOMAIN ctrs \subseteq ContainerIds \cup ContainersTwo
    /\ \A i \in 1..Len(stack) : stack[i].kind \in {"init", "resolve", "factory", "forin", "set"}
    /\ pending.t \in {"none", "ret", "throw"}

-----------------------------------------------------------------------------
(* Vocabulary of the properties *)

\* no call of the caller is running
Idle == stack = <<>>

\* the last call of the caller was inject, and it has returned the container
InjectReturned == Idle /\ last.op = "inject" /\ pending.t = "ret"

Calls(id, key) == Invocations(log, id, key)

\* the cache entry of a key, read off the target object of the proxy
CacheState(id, key) ==
    LET obj == proxies[id].target
    IN  IF key \notin DOMAIN obj THEN "Empty"
        ELSE IF obj[key] = requested THEN "Resolving"
        ELSE IF InstanceofError(obj[key]) THEN "Failed"
        ELSE "Value"

\* the value module[key] behind the proxy id
Bound(id, key) == Lookup(heap[proxies[id].module], key)

RECURSIVE Leaves(_, _, _)

\* the functions of the module tree below object o, with their key paths
Leaves(h, o, at) ==
    UNION { IF IsFunction(h[o][i].v)
            THEN {[at |-> at, key |-> h[o][i].k, fn |-> h[o][i].v]}
            ELSE Leaves(h, h[o][i].v.ref, Append(at, h[o][i].k)) : i \in 1..Len(h[o]) }

RECURSIVE GroupPaths(_, _, _)

\* the key paths of the groups below object o
GroupPaths(h, o, at) ==
    UNION { IF IsFunction(h[o][i].v) THEN {}
            ELSE {Append(at, h[o][i].k)}
                 \cup GroupPaths(h, h[o][i].v.ref, Append(at, h[o][i].k)) : i \in 1..Len(h[o]) }

RECURSIVE At(_, _, _)

\* the value at a non-empty key path below object o, Undefined if there is none
At(h, o, path) ==
    LET v == Lookup(h[o], Head(path))
    IN  IF Len(path) = 1 THEN v
        ELSE IF isObj(v) THEN At(h, v.ref, Tail(path))
        ELSE Undefined

KeySet(o) == {o[i].k : i \in 1..Len(o)}

Largest(S) == CHOOSE n \in S : \A m \in S : m <= n

\* the step is a read of proxy[prop], by the caller or by a running factory
Reads(id, prop) ==
    \/ Read(id, prop)
    \/ /\ stack # <<>> /\ Top.kind = "factory" /\ pending = None
       /\ Top.i <= Len(Behaviour(Top.fn.f).reads)
       /\ Top.cur.t = "proxy" /\ Top.cur.id = id
       /\ Behaviour(Top.fn.f).reads[Top.i][Top.j] = prop
       /\ FactoryRead

\* a factory invoked for the key has thrown
HasThrown(id, prop) ==
    \E e \in log : e.node = id /\ e.key = prop /\ e.out.t = "throw"

\* a non-eager factory has been invoked once its key has been read, never before
LazyOnce ==
    \A id \in DOMAIN proxies, key \in Names :
        (IsFunction(Bound(id, key)) /\ ~Bound(id, key).eager)
            => Calls(id, key) = (IF key \in DOMAIN proxies[id].target THEN 1 ELSE 0)

-----------------------------------------------------------------------------
(* Properties *)

\* C1 Memoization: for every key whose factory returned normally, the
\* factory is invoked exactly once, every read of the key returns the same
\* value, and no read of the key throws.
C1_Memoization ==
    /\ \A e \in log : e.out.t = "ret" => Calls(e.node, e.key) = 1
    /\ \A k \in DOMAIN returned : Cardinality(returned[k]) <= 1
    /\ (/\ Idle /\ last.op = "read"
        /\ \E e \in log : e.node = last.node /\ e.key = last.key /\ e.out.t = "ret")
           => pending.t = "ret"

\* C2 as stated: when inject returns no non-eager factory has been invoked,
\* and a non-eager factory is invoked exactly once by the first read of its key.
C2_LazyAsStated ==
    /\ InjectReturned => \A e \in log : e.fn.eager
    /\ LazyOnce

\* C2 amended: a non-eager factory invoked while inject runs is invoked by
\* resolve for a read that a factory running in that inject made through its
\* context; a non-eager factory is invoked exactly once by the first read of
\* its key, never before and never again.
C2_Lazy ==
    /\ \A e \in log :
        (e.phase = "inject" /\ ~e.fn.eager)
            => /\ e.via = "resolve"
               /\ e.by.t = "factory"
               /\ \E r \in log : r.node = e.by.node /\ r.key = e.by.key /\ r.phase = "inject"
    /\ LazyOnce

\* inject has returned after an eager factory read a non-eager key, and the
\* caller has then read another non-eager key for the first time
C2_Witness ==
    /\ Idle /\ last.op = "read" /\ pending.t = "ret"
    /\ \E e \in log : e.phase = "inject" /\ ~e.fn.eager /\ e.out.t = "ret"
    /\ \E e \in log : e.phase = "read" /\ ~e.fn.eager /\ e.by.t = "caller"
                      /\ e.node = last.node /\ e.key = last.key

\* C3 Cycle detection: a read of a key whose cache entry is Resolving throws
\* a cyclic-dependency error that names the key, and invokes no factory.
C3_CycleDetected ==
    [][\A id \in DOMAIN proxies, prop \in Names :
        (CacheState(id, prop) = "Resolving" /\ Reads(id, prop))
            => /\ pending'.t = "throw"
               /\ pending'.e.kind = "cycle"
               /\ pending'.e.path[Len(pending'.e.path)] = prop
               /\ log' = log]_vars

\* the caller's read of a has ended in the cyclic-dependency error naming a,
\* the factories of a and b having been invoked once each
C3_Witness ==
    /\ Idle /\ last.op = "read" /\ last.key = "a"
    /\ pending = Throw(NewError("cycle", <<"a">>))
    /\ Calls(last.node, "a") = 1 /\ Calls(last.node, "b") = 1

\* C4 Failure caching: once the factory of a key has thrown, every later read
\* of the key throws a construction failure and invokes no factory.
C4_FailureCached ==
    [][\A id \in DOMAIN proxies, prop \in Names :
        (HasThrown(id, prop) /\ Reads(id, prop))
            => /\ pending'.t = "throw"
               /\ pending'.e.kind = "failure"
               /\ log' = log]_vars

\* C5 Eagerness: when inject returns, every eager function of the merged
\* module has been invoked during that inject, and initializeEagerServices
\* itself invokes eager functions only.
C5_Eager ==
    /\ InjectReturned =>
        \A l \in Leaves(heap, ctrs[last.c].module, <<>>) :
            l.fn.eager => \E e \in log : /\ e.node = <<last.c>> \o l.at /\ e.key = l.key
                                         /\ e.fn = l.fn /\ e.phase = "inject"
    /\ \A e \in log : e.via = "eager" => e.fn.eager
    /\ \A e \in log : (e.phase = "inject" /\ ~e.fn.eager) => e.by.t = "factory"

\* inject has returned: an eager factory inside a group has been invoked and
\* a non-eager sibling of the root has not
C5_Witness ==
    /\ InjectReturned
    /\ \E e \in log : e.fn.eager /\ Len(e.node) > 1 /\ e.phase = "inject"
    /\ \E key \in Names : /\ IsFunction(Bound(<<last.c>>, key))
                          /\ ~Bound(<<last.c>>, key).eager
                          /\ Calls(<<last.c>>, key) = 0

\* C6 Eager forcing goes through the cache: when inject returns the cache
\* entry of every eager key is Value, and an eager factory is invoked at most
\* once over the lifetime of the container.
C6_EagerCached ==
    /\ InjectReturned =>
        \A l \in Leaves(heap, ctrs[last.c].module, <<>>) :
            l.fn.eager =>
                /\ <<last.c>> \o l.at \in DOMAIN proxies
                /\ CacheState(<<last.c>> \o l.at, l.key) = "Value"
    /\ \A e \in log : e.fn.eager => Calls(e.node, e.key) = 1

\* the arguments of the container that define the key path as a function
Definers(modules, path) ==
    {i \in 1..Len(modules) : IsFunction(At(Original, modules[i], path))}

\* C7 Override: a function of the merged module whose key path is bound to a
\* function by more than one argument is the function of the last such
\* argument, and no other function is ever invoked for that key.
C7_Override ==
    \A c \in DOMAIN ctrs :
        \A l \in Leaves(heap, ctrs[c].module, <<>>) :
            LET path == Append(l.at, l.key)
                D == Definers(ctrs[c].args, path)
                winner == At(Original, ctrs[c].args[Largest(D)], path)
            IN  Cardinality(D) > 1 =>
                    /\ l.fn = winner
                    /\ \A e \in log :
                        (e.node = <<c>> \o l.at /\ e.key = l.key) => e.fn = winner

\* no argument binds the key path or a prefix of it to a function
GroupsOnly(modules, path) ==
    \A j \in 1..Len(modules), n \in 1..Len(path) :
        ~IsFunction(At(Original, modules[j], SubSeq(path, 1, n)))

\* C8 Deep group merge: where the arguments bind a key path (at any depth) to
\* groups only, the merged module has a group there that contains the keys
\* of the group of every argument.
C8_DeepMerge ==
    \A c \in DOMAIN ctrs :
        LET modules == ctrs[c].args
        IN  \A i \in 1..Len(modules) :
              \A path \in GroupPaths(Original, modules[i], <<>>) :
                GroupsOnly(modules, path)
                => /\ isObj(At(heap, ctrs[c].module, path))
                   /\ KeySet(Original[At(Original, modules[i], path).ref])
                        \subseteq KeySet(heap[At(heap, ctrs[c].module, path).ref])

\* the container of inject(M1, M2) has resolved g.x and g.y, g.h.z and g.h.w
C8_Witness ==
    /\ Idle /\ "c1" \in DOMAIN ctrs /\ ctrs["c1"].args = <<"M1", "M2">>
    /\ <<"c1", "g", "h">> \in DOMAIN proxies
    /\ CacheState(<<"c1", "g">>, "x") = "Value"
    /\ CacheState(<<"c1", "g">>, "y") = "Value"
    /\ CacheState(<<"c1", "g", "h">>, "z") = "Value"
    /\ CacheState(<<"c1", "g", "h">>, "w") = "Value"

\* C9 Modules are never mutated: every module object passed to inject keeps
\* the keys and values the caller gave it.
C9_ModulesUnchanged ==
    \A o \in ModuleObjects : heap[o] = Original[o]

\* C10 Root context: every factory invocation receives the root proxy of its
\* container as argument.
C10_RootContext ==
    \A e \in log : e.ctx = ProxyRef(<<e.node[1]>>)

\* factories of a nested group have been invoked by resolve and by
\* initializeEagerServices
C10_Witness ==
    /\ \E e \in log : Len(e.node) > 1 /\ e.via = "resolve" /\ e.out.t = "ret"
    /\ \E e \in log : Len(e.node) > 1 /\ e.via = "eager" /\ e.out.t = "ret"

-----------------------------------------------------------------------------
(* Vocabulary of the properties of enumeration, errors and extension *)

\* the step belongs to an enumeration of the container: Reflect.ownKeys,
\* `in`, or a for..in loop from its start to its end
Enumerates ==
    \/ stack = <<>> /\ last'.op \in {"ownKeys", "has", "forin"} /\ last' # last
    \/ stack # <<>> /\ stack[1].kind = "forin"

\* the target objects of all proxies of the container are extensible
Extensible(c) == \A id \in DOMAIN proxies : id[1] = c => proxies[id].extensible

\* no property of the root of the container holds a value the caller assigned
NotAssigned(c) ==
    \A k \in DOMAIN proxies[<<c>>].target : proxies[<<c>>].target[k] \notin Assigned

\* the keys ks joined by dots, as a sequence of tokens
Dots(ks) == [i \in 1..(2 * Len(ks) - 1) |-> IF i % 2 = 1 THEN ks[(i + 1) \div 2] ELSE "."]

\* the dotted path from the root container to key prop of the proxy id
Dotted(id, prop) == Dots(Append(Tail(id), prop))

\* the exceptions that factories have thrown or let escape
Escaped == {e.out.e : e \in {x \in log : x.out.t = "throw"}}

-----------------------------------------------------------------------------
(* Properties of enumeration, errors and extension *)

\* C11 Enumeration does not force resolution: on a container that is
\* extensible, no step of Reflect.ownKeys, of `in` or of a for..in loop
\* invokes a factory, changes a cache entry or throws.
C11_EnumerationDoesNotForce ==
    [][(Enumerates /\ \A c \in DOMAIN ctrs : Extensible(c))
        => /\ log' = log
           /\ \A id \in DOMAIN proxies : proxies'[id].target = proxies[id].target
           /\ pending'.t # "throw"]_vars

\* C12 Key set: Reflect.ownKeys and a completed for..in of a container node
\* list the keys of its module node in insertion order, and `key in
\* container` is true exactly for the keys of the module node.
C12_KeySet ==
    (Idle /\ last.op \in {"ownKeys", "forin", "has"})
        => LET module == heap[proxies[last.node].module]
           IN  CASE last.op = "has" -> pending = Ret(Bool(Has(module, last.key)))
                 [] OTHER -> pending = Ret(KeyList(keys(module)))

\* C13 First-access error forwarding: a read of the caller that ends with an
\* exception made by a throwing factory ends with the exception the factory
\* of the key let escape, and once the read has ended every key whose factory
\* let an exception escape has a Failed entry holding that exception.
C13_ErrorForwarded ==
    /\ (/\ Idle /\ last.op = "read" /\ pending.t = "throw"
        /\ \E x \in log : /\ Behaviour(x.fn.f).out \in {"throwError", "throwString"}
                          /\ x.out = pending)
           => \E e \in log : e.node = last.node /\ e.key = last.key /\ e.out = pending
    /\ (Idle /\ last.op = "read")
           => \A e \in log :
                (e.via = "resolve" /\ e.out.t = "throw")
                    => /\ CacheState(e.node, e.key) = "Failed"
                       /\ proxies[e.node].target[e.key] = e.out.e

\* C14 Cause preservation: a construction failure raised by a read carries as
\* its cause an exception that a factory has thrown.
C14_CausePreserved ==
    (/\ Idle /\ last.op = "read" /\ pending.t = "throw"
     /\ InstanceofError(pending.e) /\ pending.e.kind = "failure")
        => CauseOf(pending.e) \in Escaped

\* C15 Error paths: the cyclic-dependency or construction-failure error that
\* a read of key prop of a container node raises names the dotted path of
\* the keys from the root container to prop.
C15_ErrorPath ==
    [][\A id \in DOMAIN proxies, prop \in Names :
        (/\ Reads(id, prop) /\ pending'.t = "throw"
         /\ InstanceofError(pending'.e) /\ pending'.e.kind \in {"cycle", "failure"})
            => pending'.e.path = Dotted(id, prop)]_vars

\* C16 Deferred cycles: in a container of {a: reads b, b: provider of a}
\* that has not been assigned to or sealed, no read of a or b and no call of
\* the provider throws, each factory is invoked at most once, and all reads
\* of a (of b), by the caller, by a factory or by the provider, return the
\* same value.
C16_DeferredCycle ==
    \A c \in DOMAIN ctrs :
        (ctrs[c].args = <<"M5">> /\ NotAssigned(c) /\ Extensible(c))
            => /\ \A e \in log : e.out.t # "throw"
               /\ Calls(<<c>>, "a") <= 1 /\ Calls(<<c>>, "b") <= 1
               /\ \A k \in DOMAIN returned : Cardinality(returned[k]) <= 1
               /\ (/\ Idle /\ last.op \in {"read", "provider"}
                   /\ last.key \in {"a", "b"})
                      => /\ pending.t = "ret"
                         /\ pending.v \in returned[<<<<c>>, IF last.op = "read" THEN last.key ELSE "a">>]

\* the caller has read a, whose factory read b, and has then called the
\* provider of b, which returned the value of a
C16_Witness ==
    /\ Idle /\ last.op = "provider" /\ last.key = "b" /\ pending.t = "ret"
    /\ ctrs[last.node[1]].args = <<"M5">>
    /\ NotAssigned(last.node[1]) /\ Extensible(last.node[1])
    /\ Calls(last.node, "a") = 1 /\ Calls(last.node, "b") = 1
    /\ \E e \in log : e.key = "b" /\ e.by = [t |-> "factory", node |-> last.node, key |-> "a"]
    /\ pending.v = proxies[last.node].target["a"]

\* C17 Undefined keys: a read by the caller of a key that is not a key of
\* the module node and has not been assigned returns undefined, invokes no
\* factory and creates no cache entry.
C17_UndefinedKey ==
    [][\A id \in DOMAIN proxies, prop \in NamesOps :
        (/\ Read(id, prop)
         /\ ~Has(heap[proxies[id].module], prop)
         /\ prop \notin DOMAIN proxies[id].target)
            => /\ pending' = Ret(Undefined)
               /\ log' = log
               /\ proxies' = proxies]_vars

\* C18 Delete is rejected: `delete container[key]` throws and changes neither
\* the cache entries, nor the modules, nor the invocations made, in any
\* cache state of the key.
C18_DeleteRejected ==
    [][(stack = <<>> /\ last'.op = "delete")
        => /\ pending'.t = "throw"
           /\ proxies' = proxies
           /\ heap' = heap
           /\ log' = log
           /\ stack' = <<>>]_vars

\* the caller has tried to delete a key whose entry is Value; the entry is
\* still there
C18_Witness ==
    /\ Idle /\ last.op = "delete" /\ pending.t = "throw"
    /\ Has(heap[proxies[last.node].module], last.key)
    /\ CacheState(last.node, last.key) = "Value"
    /\ Calls(last.node, last.key) = 1

\* C19 Ad-hoc extension: an assignment to a key that is not defined in the
\* module succeeds iff the container is extensible, a read of a key that is
\* not defined in the module returns the value assigned to it, and undefined
\* if the assignment failed.
C19_Extension ==
    [][/\ (/\ stack # <<>> /\ Top.kind = "set" /\ pending.t = "ret"
           /\ ~In(heap[proxies[Top.node].module], Top.prop)
           /\ Top.prop \notin DOMAIN proxies[Top.node].target)
            => IF proxies[Top.node].extensible
               THEN pending' = Ret(Top.v) /\ proxies'[Top.node].target[Top.prop] = Top.v
               ELSE pending'.t = "throw" /\ proxies' = proxies
       /\ \A id \in DOMAIN proxies, prop \in NamesSet :
            (Read(id, prop) /\ ~In(heap[proxies[id].module], prop))
                => pending' = Ret(GetTarget(proxies[id].target, prop))]_vars

\* C20 inject fails iff an eager factory fails: once inject has ended, it has
\* thrown iff a function called by initializeEagerServices has thrown, and
\* then it has thrown the exception of that function; while the container
\* is in use no such function has thrown.
C20_InjectFails ==
    \A c \in DOMAIN ctrs :
        LET thrown == {e \in log : e.node[1] = c /\ e.via = "eager" /\ e.out.t = "throw"}
        IN  /\ Idle => (ctrs[c].status = "failed" <=> thrown # {})
            /\ ctrs[c].status = "returned" => thrown = {}
            /\ (Idle /\ ctrs[c].status = "failed")
                  => /\ last = [op |-> "inject", c |-> c]
                     /\ \E e \in thrown : pending = e.out

\* inject has thrown the exception of an eager factory
C20_Witness ==
    /\ Idle /\ last.op = "inject" /\ ctrs[last.c].status = "failed"
    /\ pending.t = "throw"
    /\ \E e \in log : e.via = "eager" /\ e.fn.eager /\ e.out = pending

-----------------------------------------------------------------------------
(* Properties of eager tagging, merge and the cache entries *)

\* the plain factories of the catalog
Plain == {Fn(f, FALSE) : f \in {"one", "two", "depA", "depB", "depGX", "depGHZ",
                                 "throws", "throwsStr", "retErr", "provA"}}

\* the invocations initializeEagerServices has made for a key
Forced(id, key) == {e \in log : e.node = id /\ e.key = key /\ e.via = "eager"}

\* C21 Eager tagging is idempotent: eager(f) is tagged and is another
\* function than f, eager(eager(f)) is eager(f), every eager function of the
\* modules is the result of one tagging, and when inject returns it has
\* invoked every eager function of the merged module once, whether the key
\* was bound to eager(f) or to eager(eager(f)).
C21_EagerIdempotent ==
    /\ \A fn \in Plain :
        /\ eager(fn) # fn
        /\ isEagerIn(eager(fn))
        /\ eager(eager(fn)) = eager(fn)
    /\ \A o \in ModuleObjects : \A i \in 1..Len(Original[o]) :
        LET v == Original[o][i].v
        IN  (IsFunction(v) /\ v.eager) => v.wraps \in Plain
    /\ InjectReturned =>
        \A l \in Leaves(heap, ctrs[last.c].module, <<>>) :
            l.fn.eager => Cardinality(Forced(<<last.c>> \o l.at, l.key)) = 1

\* inject(M3) has returned: it has invoked the function of b, bound to
\* eager(eager(two)), once
C21_Witness ==
    /\ InjectReturned /\ ctrs[last.c].args = <<"M3">>
    /\ Bound(<<last.c>>, "b") = eager(eager(Fn("two", FALSE)))
    /\ Cardinality(Forced(<<last.c>>, "b")) = 1
    /\ \A e \in Forced(<<last.c>>, "b") : e.out.t = "ret" /\ e.out.v.f = "two"

\* the function the last argument that binds the key path to a function
\* binds it to, as the caller wrote it
Winner(modules, path) ==
    At(Original, modules[Largest(Definers(modules, path))], path)

\* every argument binds every proper prefix of the key path to a group, or
\* not at all
InGroups(modules, path) ==
    \A j \in 1..Len(modules), n \in 1..(Len(path) - 1) :
        ~IsFunction(At(Original, modules[j], SubSeq(path, 1, n)))

\* the key paths that the arguments bind to functions
BoundPaths(modules) ==
    UNION {{Append(l.at, l.key) : l \in Leaves(Original, modules[i], <<>>)} :
            i \in 1..Len(modules)}

\* C22 Eagerness follows the winning binding: for a key path that several
\* arguments bind to functions, only the function of the last of them is ever
\* invoked; if it is eager, inject has invoked it when it returns; if it is
\* not, initializeEagerServices never invokes a function for that key.
C22_EagerWinner ==
    \A c \in DOMAIN ctrs :
        \A path \in BoundPaths(ctrs[c].args) :
            LET modules == ctrs[c].args
                node == <<c>> \o SubSeq(path, 1, Len(path) - 1)
                key == path[Len(path)]
                called == {e \in log : e.node = node /\ e.key = key}
            IN  (Cardinality(Definers(modules, path)) > 1 /\ InGroups(modules, path))
                => /\ \A e \in called : e.fn = Winner(modules, path)
                   /\ Winner(modules, path).eager
                        => (ctrs[c].status = "returned" => Forced(node, key) # {})
                   /\ ~Winner(modules, path).eager => Forced(node, key) = {}

\* the proxies of the two containers hold no value in common
Separate ==
    \A k1 \in DOMAIN returned, k2 \in DOMAIN returned :
        k1[1][1] # k2[1][1] => returned[k1] \cap returned[k2] = {}

\* the container that the step acts on
Acting ==
    IF stack # <<>>
    THEN (IF stack[1].kind = "init" THEN stack[1].c ELSE stack[1].node[1])
    ELSE (IF last'.op = "inject" THEN last'.c ELSE last'.node[1])

\* C23 Container independence: a step of an inject call or of a read on one
\* container changes no cache entry of the other container; a factory that
\* is not eager has been invoked for a key of a container iff that key of
\* that container has been read; the two containers hand out different
\* values.
C23_Independent ==
    [][/\ \A id \in DOMAIN proxies : id[1] # Acting => proxies'[id] = proxies[id]
       /\ LazyOnce'
       /\ Separate']_vars

\* both containers were made from the same module; a has failed in the first
\* and has not been read in the second, g.x is resolved in both
C23_Witness ==
    /\ Idle /\ DOMAIN ctrs = {"c1", "c2"}
    /\ ctrs["c1"].args = <<"P1">> /\ ctrs["c2"].args = <<"P1">>
    /\ CacheState(<<"c1">>, "a") = "Failed"
    /\ CacheState(<<"c2">>, "a") = "Empty"
    /\ <<"c1", "g">> \in DOMAIN proxies /\ <<"c2", "g">> \in DOMAIN proxies
    /\ CacheState(<<"c1", "g">>, "x") = "Value"
    /\ CacheState(<<"c2", "g">>, "x") = "Value"
    /\ proxies[<<"c1", "g">>].target["x"] # proxies[<<"c2", "g">>].target["x"]

\* the step from cache state s to cache state t of an entry is one of
\* resolve; for a group key resolve stores the requested symbol and the new
\* proxy in one step
Moves(s, t, group) ==
    \/ s = t
    \/ s = "Empty" /\ t = "Resolving"
    \/ s = "Empty" /\ t = "Value" /\ group
    \/ s = "Resolving" /\ t \in {"Value", "Failed"}

\* C24 Cache-entry monotonicity: in every step of inject or of a read, by
\* the caller or by a factory, each cache entry stays as it is or moves from
\* Empty to Resolving or from Resolving to Value or Failed; an entry that is
\* Value or Failed keeps the value it holds.
C24_Monotonic ==
    [][\A id \in DOMAIN proxies, key \in Names :
        /\ id \in DOMAIN proxies'
        /\ Moves(CacheState(id, key), CacheState(id, key)', ~IsFunction(Bound(id, key)))
        /\ CacheState(id, key) \in {"Value", "Failed"}
            => proxies'[id].target[key] = proxies[id].target[key]]_vars

\* the caller has read a failed key again and got the construction failure,
\* with the entry still Failed, next to a resolved key and a key that is
\* being left alone
C24_Witness ==
    /\ Idle /\ last.op = "read"
    /\ CacheState(last.node, last.key) = "Failed"
    /\ Calls(last.node, last.key) = 1
    /\ pending.t = "throw" /\ pending.e.kind = "failure"
    /\ \E key \in Names : CacheState(last.node, key) = "Value"

\* the key of the proxy is bound to a group whose proxy is in the target
GroupCached(id, key) ==
    /\ In(heap[proxies[id].module], key)
    /\ ~IsFunction(Bound(id, key))
    /\ key \in DOMAIN proxies[id].target

\* C25 Group identity is stable: a read of a group key that has been read
\* before, by the caller or by a factory through the context, returns the
\* proxy stored at the first read and leaves every proxy with the entries it
\* has, so that it is the only value ever returned for the key; a lazy
\* factory inside a group has been invoked once iff its key is in the cache
\* of the group, whoever read it.
C25_GroupStable ==
    [][/\ \A id \in DOMAIN proxies, key \in Names :
            (GroupCached(id, key) /\ Reads(id, key))
                => /\ pending' = Ret(proxies[id].target[key])
                   /\ proxies' = proxies
                   /\ returned'[<<id, key>>] = {ProxyRef(Append(id, key))}
       /\ \A id \in DOMAIN proxies : \A key \in DOMAIN proxies[id].target :
            (Len(id) > 1 /\ CacheState(id, key) = "Value")
                => /\ id \in DOMAIN proxies'
                   /\ key \in DOMAIN proxies'[id].target
                   /\ proxies'[id].target[key] = proxies[id].target[key]
       /\ LazyOnce']_vars

\* the caller has read a group key whose group already held a resolved
\* service, and got the proxy that holds it
C25_Witness ==
    /\ Idle /\ last.op = "read" /\ last.key = "g"
    /\ GroupCached(last.node, "g")
    /\ pending = Ret(ProxyRef(Append(last.node, "g")))
    /\ CacheState(Append(last.node, "g"), "x") = "Value"
    /\ Calls(Append(last.node, "g"), "x") = 1
    /\ \E e \in log : e.node = Append(last.node, "g") /\ e.key = "x" /\ e.by # ByCaller

\* the key is bound to a function that reads nothing and returns an object
Standalone(id, key) ==
    /\ IsFunction(Bound(id, key))
    /\ Behaviour(Bound(id, key).f).reads = <<>>
    /\ Behaviour(Bound(id, key).f).out = "object"

\* C26 Failure isolation: the step of resolve that stores a failure changes
\* the entry of the failed key and no other entry of any proxy; a key whose
\* function reads nothing and returns an object is never Failed, every
\* invocation for it returns, and a read of it returns a value, whatever
\* other keys have failed.
C26_Isolation ==
    [][/\ ResolveCatch =>
            \A id \in DOMAIN proxies :
                /\ DOMAIN proxies'[id].target = DOMAIN proxies[id].target
                /\ \A key \in DOMAIN proxies[id].target :
                    (id # Top.node \/ key # Top.prop)
                        => proxies'[id].target[key] = proxies[id].target[key]
       /\ \A id \in DOMAIN proxies, key \in Names :
            Standalone(id, key)
                => /\ CacheState(id, key) # "Failed"
                   /\ \A e \in log : (e.node = id /\ e.key = key) => e.out.t # "throw"
                   /\ Reads(id, key) => pending'.t # "throw"
                   /\ (Reads(id, key) /\ CacheState(id, key) = "Value")
                        => pending' = Ret(proxies[id].target[key])]_vars

\* a has failed, and the caller's later read of its sibling b has returned
\* the service of b
C26_Witness ==
    /\ Idle /\ last.op = "read" /\ last.key = "b"
    /\ CacheState(last.node, "a") = "Failed"
    /\ HasThrown(last.node, "a")
    /\ Standalone(last.node, "b")
    /\ CacheState(last.node, "b") = "Value"
    /\ pending = Ret(proxies[last.node].target["b"])

\* the invocations resolve has made for the key that have returned
ReturnedTo(id, key) ==
    {e \in log : e.node = id /\ e.key = key /\ e.via = "resolve" /\ e.out.t = "ret"}

\* C27 Any value is a valid service: when the factory that resolve invoked
\* for a key has returned v, an object or an error object, the first read and
\* every later read of the key return v, and none throws.
C27_AnyValue ==
    (Idle /\ last.op = "read")
        => \A e \in ReturnedTo(last.node, last.key) : pending = Ret(e.out.v)

\* C28 Failure is permanent for any thrown value: once the factory of a key
\* has thrown, an error or a value that is no error, every later read of the
\* key by the caller throws.
C28_PermanentFailure ==
    (Idle /\ last.op = "read" /\ HasThrown(last.node, last.key))
        => pending.t = "throw"

\* what argument i binds the top-level key to, as the caller wrote it
Written(modules, i, key) == Lookup(Original[modules[i]], key)

\* the arguments that bind the top-level key to a function, and to a group
AsFunction(modules, key) == {i \in 1..Len(modules) : IsFunction(Written(modules, i, key))}
AsGroup(modules, key) == {i \in 1..Len(modules) : isObj(Written(modules, i, key))}

\* C29 Merge replaces across kinds: for a key that some arguments bind to a
\* function and others to a group, the module behind the container binds the
\* key to the function of the last argument if that argument binds a
\* function; otherwise it binds the key to a group that holds the keys of
\* the groups written in the arguments after the last function, each with
\* the function of the last of them, and nothing else.
C29_CrossKinds ==
    \A c \in DOMAIN ctrs, key \in NamesTwo :
        LET modules == ctrs[c].args
            F == AsFunction(modules, key)
            G == AsGroup(modules, key)
            shown == Lookup(heap[ctrs[c].module], key)
        IN  (F # {} /\ G # {}) =>
                IF Largest(F) > Largest(G)
                THEN shown = Written(modules, Largest(F), key)
                ELSE /\ isObj(shown)
                     /\ LET later == {i \in G : i > Largest(F)}
                            group(i) == Original[Written(modules, i, key).ref]
                        IN  /\ KeySet(heap[shown.ref]) = UNION {KeySet(group(i)) : i \in later}
                            /\ \A x \in KeySet(heap[shown.ref]) :
                                Lookup(heap[shown.ref], x) =
                                    Lookup(group(Largest({i \in later : Has(group(i), x)})), x)

RECURSIVE Position(_, _, _)

\* the positions of the keys of a key path, each among the keys of its node
Position(h, o, path) ==
    LET i == CHOOSE n \in 1..Len(h[o]) : h[o][n].k = Head(path)
    IN  IF Len(path) = 1 THEN <<i>>
        ELSE <<i>> \o Position(h, h[o][i].v.ref, Tail(path))

\* p comes before q in the depth-first order of the tree
Precedes(p, q) ==
    \E n \in 1..Len(p) :
        /\ n <= Len(q)
        /\ p[n] < q[n]
        /\ \A m \in 1..(n - 1) : p[m] = q[m]

\* the places of the invocations for a key in the order of the calls made
\* while inject runs
Turns(id, key) == {i \in 1..Len(order) : order[i] = <<id, key>>}

\* the eager functions of the module behind container c
EagerLeaves(c) == {l \in Leaves(heap, ctrs[c].module, <<>>) : l.fn.eager}

\* C30 Eager order: of two eager functions of the merged module, the one
\* that comes first in the depth-first order of the module tree, taking the
\* keys of each node in their order, is invoked first, once each; a function
\* inside a group takes the place of the group among the keys of its node;
\* when inject has returned every eager function has been invoked.
C30_EagerOrder ==
    \A c \in DOMAIN ctrs :
        /\ \A l1 \in EagerLeaves(c), l2 \in EagerLeaves(c) :
            (/\ Precedes(Position(heap, ctrs[c].module, Append(l1.at, l1.key)),
                         Position(heap, ctrs[c].module, Append(l2.at, l2.key)))
             /\ Turns(<<c>> \o l2.at, l2.key) # {})
                => /\ Cardinality(Turns(<<c>> \o l1.at, l1.key)) = 1
                   /\ Cardinality(Turns(<<c>> \o l2.at, l2.key)) = 1
                   /\ \A i \in Turns(<<c>> \o l1.at, l1.key), j \in Turns(<<c>> \o l2.at, l2.key) :
                        i < j
        /\ ctrs[c].status = "returned"
            => \A l \in EagerLeaves(c) : Turns(<<c>> \o l.at, l.key) # {}

\* inject has returned after it invoked the eager b, then g.h.w inside the
\* group h, then g.y, the key after h in g
C30_Witness ==
    /\ InjectReturned
    /\ \E l \in EagerLeaves(last.c) : l.at = <<>> /\ l.key = "b"
    /\ \E i \in Turns(<<last.c>>, "b"), j \in Turns(<<last.c, "g", "h">>, "w"),
          k \in Turns(<<last.c, "g">>, "y") : i < j /\ j < k

-----------------------------------------------------------------------------
(* Properties of the inject call, of cycles, and of the proxy operations *)

\* the invocations made for a key while inject was running
DuringInject(id, key) ==
    {e \in log : e.node = id /\ e.key = key /\ e.phase = "inject"}

\* C31 At most once within inject: while inject runs, by the eager
\* traversal and by the reads of the eager factories together, at most one
\* invocation is made for each key of the merged module.
C31_OncePerInject ==
    \A id \in DOMAIN proxies, key \in Names :
        Cardinality(DuringInject(id, key)) <= 1

\* an invocation made for the key has ended with a cyclic-dependency error
CycleThrough(l, id, key) ==
    \E e \in l : /\ e.node = id /\ e.key = key
                 /\ e.out.t = "throw" /\ e.out.e.t = "error" /\ e.out.e.kind = "cycle"

\* C32 A detected cycle is cached as failure: when a call of the caller has
\* ended, every key for which an invocation ended with a cyclic-dependency
\* error is Failed, and a read of such a key throws a construction failure
\* and invokes no factory.
C32_CycleCached ==
    [][\A id \in DOMAIN proxies', key \in Names :
        CycleThrough(log', id, key)
            => /\ Idle' => CacheState(id, key)' = "Failed"
               /\ (id \in DOMAIN proxies /\ CycleThrough(log, id, key) /\ Reads(id, key))
                    => /\ pending'.t = "throw"
                       /\ pending'.e.kind = "failure"
                       /\ log' = log]_vars

\* the call of the caller has ended, with a value or with an error
CallEnded == Idle /\ pending.t \in {"ret", "throw"}

\* C33 Termination: every inject call and every read of the caller, once
\* made, ends with a value or with an error, also when a factory reads its
\* own key, when factories read each other's keys, and when an eager factory
\* is on such a cycle.
C33_Terminates == (~Idle) ~> CallEnded

\* inject has thrown the cyclic-dependency error for a, raised when the eager
\* factory of a read its own key
C33_Witness ==
    /\ Idle /\ last.op = "inject"
    /\ ctrs[last.c].args = <<"R2">> /\ ctrs[last.c].status = "failed"
    /\ pending = Throw(NewError("cycle", <<"a">>))
    /\ Calls(<<last.c>>, "a") = 2

\* C34 No key stays Resolving: when no call of the caller is running, after
\* an inject call or a read has returned or thrown, no cache entry of any
\* proxy is Resolving.
C34_NoneResolving ==
    Idle => \A id \in DOMAIN proxies, key \in Names : CacheState(id, key) # "Resolving"

\* the caller's read has ended in a cyclic-dependency error, and the two
\* keys that were Resolving while it ran are Failed
C34_Witness ==
    /\ Idle /\ last.op = "read"
    /\ pending.t = "throw" /\ pending.e.t = "error" /\ pending.e.kind = "cycle"
    /\ CacheState(last.node, "a") = "Failed" /\ CacheState(last.node, "b") = "Failed"
    /\ CycleThrough(log, last.node, "a") /\ CycleThrough(log, last.node, "b")

\* no inject call has been made after the one that made container c
Latest(c) == c = "c2" \/ "c2" \notin DOMAIN ctrs

\* C35 inject is a function of its arguments' original content: a container
\* made from one module binds the key paths that the module binds as the
\* caller wrote it, each to the function written there, and invokes no other
\* function, whether or not the module was passed to an earlier inject call
\* together with other modules.
C35_SameContainer ==
    \A c \in DOMAIN ctrs :
        (Len(ctrs[c].args) = 1 /\ Latest(c))
            => /\ Leaves(heap, ctrs[c].module, <<>>) = Leaves(Original, ctrs[c].args[1], <<>>)
               /\ \A e \in log :
                    e.node[1] = c
                        => e.fn = At(Original, ctrs[c].args[1], Tail(e.node) \o <<e.key>>)

\* C36 Resolution does not depend on the key's name: when a read by the
\* caller of a key that the module binds to a function has ended, resolve
\* has invoked a function for the key, and what the read returned is what
\* that invocation returned, also for a key named toString.
C36_AnyName ==
    (Idle /\ last.op = "read" /\ IsFunction(Bound(last.node, last.key)))
        => /\ Calls(last.node, last.key) >= 1
           /\ pending.t = "ret" => ReturnedTo(last.node, last.key) # {}
           /\ \A e \in ReturnedTo(last.node, last.key) : pending.t = "ret" => pending = e.out

\* the step belongs to an assignment `proxy[prop] = v` of the caller
Assigning ==
    \/ stack = <<>> /\ stack' # <<>> /\ stack'[1].kind = "set"
    \/ stack # <<>> /\ stack[1].kind = "set"

\* the assignment that the step belongs to
Assignment == IF stack = <<>> THEN stack'[1] ELSE stack[1]

\* the caller's read of a key for which a factory has returned an object
\* has returned that object
ReadsService ==
    (Idle /\ last.op = "read")
        => \A e \in ReturnedTo(last.node, last.key) :
                e.out.v.t = "object" => pending = e.out

\* C37 Defined keys are read-only: no step of an assignment to a key that
\* the module defines invokes a factory, and a read of a key whose factory
\* has returned an object returns that object, whatever has been assigned.
C37_ReadOnly ==
    [][/\ (Assigning /\ Has(heap[proxies[Assignment.node].module], Assignment.prop))
            => log' = log
       /\ ReadsService']_vars

\* the key is bound to a function that is not eager, reads nothing and
\* returns a service
Service(id, key) ==
    /\ IsFunction(Bound(id, key))
    /\ ~Bound(id, key).eager
    /\ Behaviour(Bound(id, key).f).reads = <<>>
    /\ Behaviour(Bound(id, key).f).out \in {"object", "provider"}

\* C38 Sealing keeps lazy resolution working: on a container that the
\* caller has sealed, a read of a key whose function reads nothing and
\* returns a service has invoked the function once and returns the value of
\* that invocation, whether the key was resolved before the seal or not.
C38_SealedResolves ==
    (/\ Idle /\ last.op = "read"
     /\ ~proxies[last.node].extensible
     /\ Service(last.node, last.key))
        => /\ Calls(last.node, last.key) = 1
           /\ \E e \in ReturnedTo(last.node, last.key) : pending = e.out

====
